---- MODULE Spec2Model ----
(***************************************************************************)
(* A model of asciinema-scripted's cast data model and event pipeline:    *)
(* cast.py (Header, the five Event kinds, AsciiCast.insert_events,         *)
(* filter_events, to_lines, save, load, parse_cast) and the four filters   *)
(* of script.py.                                                           *)
(*                                                                         *)
(* Representation.  A Python str is a sequence of one-character strings.   *)
(* A value whose Python type the code inspects (isinstance, float(), the   *)
(* regular-expression match, keyword construction of Header) carries its   *)
(* type in the field "py".  The fields of an Event are plain values: time  *)
(* is an integer number of time units, text is a sequence of characters.   *)
(***************************************************************************)
EXTENDS Integers, Sequences, FiniteSets, TLC

VARIABLES
    cast,   \* the caller's AsciiCast: [header, events]
    arg,    \* the argument of the call in progress or just made
    ret,    \* what the last call returned or raised
    file,   \* the cast file on disk: [exists, lines]
    pc,     \* the caller's position
    calls,  \* the number of calls made so far
    script, \* the Script in hand
    run     \* Script.run's locals: [ix, now, newline_delay, insert_events, recording]

vars == <<cast, arg, ret, file, pc, calls, script, run>>

(***************************************************************************)
(* Bounds of the model.                                                    *)
(***************************************************************************)
MaxTime == 2        \* event times range over 0..MaxTime
MaxLen == 2         \* longest existing / incoming event list of a merge

SeqsUpTo(S, n) == UNION {[1..k -> S] : k \in 0..n}

Times == 0..MaxTime

(***************************************************************************)
(* Python values that carry their type.                                    *)
(***************************************************************************)
PyNone == [py |-> "NoneType"]
PyNum(n) == [py |-> "num", v |-> n]
PyStr(s) == [py |-> "str", v |-> s]
PyBool(b) == [py |-> "bool", v |-> b]
PyList(s) == [py |-> "list", v |-> s]
PyDict(d) == [py |-> "dict", v |-> d]
PyInf == [py |-> "inf"]
PyNegInf == [py |-> "-inf"]
PyNaN == [py |-> "nan"]

\* An Optional local such as next_event: None, or the value.
None == <<>>
Some(v) == <<v>>

(***************************************************************************)
(* cast.py: Theme, Header and the events.                                  *)
(***************************************************************************)
Theme(fg, bg, palette) == [py |-> "Theme", fg |-> fg, bg |-> bg, palette |-> palette]

RequiredFields == {"version", "width", "height"}
OptionalFields == {"timestamp", "duration", "idle_time_limit", "command",
                   "title", "env", "theme"}
HeaderFields == RequiredFields \cup OptionalFields

\* Header(**d): the fields d gives, every other optional field at its default None.
Header(d) == [n \in HeaderFields |-> IF n \in DOMAIN d THEN d[n] ELSE PyNone]

OutputEvent(time, data) == [event_id |-> "OutputEvent", time |-> time, data |-> data]
InputEvent(time, data) == [event_id |-> "InputEvent", time |-> time, data |-> data]
MarkerEvent(time, label) == [event_id |-> "MarkerEvent", time |-> time, label |-> label]
CommentEvent(time, top, comment) ==
    [event_id |-> "CommentEvent", time |-> time, top |-> top, comment |-> comment]
ResizeEvent(time, columns, rows) ==
    [event_id |-> "ResizeEvent", time |-> time, columns |-> columns, rows |-> rows]

AsciiCast(header, events) == [header |-> header, events |-> events]

\* What a call gives back: a value, or the exception it raised.
Returned(kind, value) == [kind |-> kind, value |-> value]
Raised(type, msg, line) == [kind |-> "raise", type |-> type, msg |-> msg, line |-> line]
NoRet == [kind |-> "none"]

\* No Script in hand, and Script.run not entered.
NoScript == [kind |-> "none"]
NoRun == [kind |-> "none"]

IsCast(r) == r.kind = "cast"
IsRaise(r) == r.kind = "raise"

(***************************************************************************)
(* AsciiCast.insert_events (cast.py 113-146).                              *)
(***************************************************************************)
EventTimes(events) == [i \in 1..Len(events) |-> events[i].time]

\* sorted(xs): Python's stable sort, here by insertion.
RECURSIVE InsertSorted(_, _)
InsertSorted(x, xs) ==
    IF xs = <<>> THEN <<x>>
    ELSE IF x < Head(xs) THEN <<x>> \o xs
    ELSE <<Head(xs)>> \o InsertSorted(x, Tail(xs))

RECURSIVE Sorted(_)
Sorted(xs) ==
    IF xs = <<>> THEN <<>>
    ELSE InsertSorted(xs[Len(xs)], Sorted(SubSeq(xs, 1, Len(xs) - 1)))

\* line 126: the existing event goes first
KeepCurrent(next_event, current_event) ==
    next_event = None \/ current_event.time <= next_event[1].time

\* line 130 with <= for <: incoming events that tie are drained as well
DrainWhileLoose(next_event, current_event) ==
    next_event[1].time <= current_event.time

\* line 130: the while condition
DrainWhile(next_event, current_event) ==
    next_event[1].time < current_event.time

\* lines 130-137: the inner while loop, on the loop's three locals
RECURSIVE Drain(_, _)
Drain(st, current_event) ==
    IF DrainWhile(st.next_event, current_event)
    THEN LET appended == Append(st.new_events, st.next_event[1])
         IN  IF st.remaining_events /= <<>>
             THEN Drain([new_events |-> appended,
                         next_event |-> Some(Head(st.remaining_events)),
                         remaining_events |-> Tail(st.remaining_events)],
                        current_event)
             ELSE [new_events |-> appended,
                   next_event |-> None,
                   remaining_events |-> st.remaining_events]
    ELSE st

\* lines 125-139: one iteration of the for loop
MergeStep(st, current_event) ==
    IF KeepCurrent(st.next_event, current_event)
    THEN [st EXCEPT !.new_events = Append(@, current_event)]
    ELSE LET drained == Drain(st, current_event)
         IN  [drained EXCEPT !.new_events = Append(@, current_event)]

\* lines 125-139: the for loop over self.events
RECURSIVE MergeLoop(_, _)
MergeLoop(st, existing) ==
    IF existing = <<>> THEN st
    ELSE MergeLoop(MergeStep(st, Head(existing)), Tail(existing))

\* lines 141-144: what is left of the incoming events
MergeTail(st) ==
    (IF st.next_event /= None THEN Append(st.new_events, st.next_event[1])
     ELSE st.new_events) \o st.remaining_events

insert_events(self, events) ==
    IF Len(events) = 0 THEN Returned("cast", self)
    ELSE IF Len(self.events) = 0
    THEN Returned("cast", AsciiCast(self.header, events))
    ELSE IF EventTimes(events) /= Sorted(EventTimes(events))
    THEN Raised("ValueError", "Events must be sorted chronologically", None)
    ELSE LET st0 == [new_events |-> <<>>,
                     next_event |-> Some(events[1]),
                     remaining_events |-> Tail(events)]
         IN  Returned("cast",
                      AsciiCast(self.header, MergeTail(MergeLoop(st0, self.events))))

(***************************************************************************)
(* The casts and event lists the properties range over.                    *)
(***************************************************************************)
TextA == <<"a">>
TextB == <<"a", "b">>
LabelX == <<"X">>
LabelY == <<"Y">>

IsTimeSorted(events) ==
    \A i \in 1..(Len(events) - 1) : events[i].time <= events[i + 1].time

\* A header as asciinema writes it: version 2 and the terminal's geometry.
PlainHeader ==
    Header([version |-> PyNum(2), width |-> PyNum(5), height |-> PyNum(3)])

\* Events of a recording, and the events Script.run records beside it.
RecordedEvents ==
    {OutputEvent(t, TextA) : t \in Times} \cup {MarkerEvent(t, LabelX) : t \in Times}
ScriptEvents ==
    {MarkerEvent(t, LabelY) : t \in Times}
        \cup {CommentEvent(t, FALSE, TextA) : t \in Times}

(***************************************************************************)
(* SpecInsert: one call of insert_events, on every time-sorted cast and    *)
(* every incoming list within the bounds.                                  *)
(***************************************************************************)
InitInsert ==
    /\ cast \in {AsciiCast(PlainHeader, es) :
                    es \in {s \in SeqsUpTo(RecordedEvents, MaxLen) : IsTimeSorted(s)}}
    /\ arg \in SeqsUpTo(ScriptEvents, MaxLen)
    /\ ret = NoRet
    /\ file = [exists |-> FALSE, lines |-> <<>>]
    /\ pc = "insert"
    /\ calls = 0
    /\ script = NoScript
    /\ run = NoRun

CallInsertEvents ==
    /\ pc = "insert"
    /\ ret' = insert_events(cast, arg)
    /\ pc' = "done"
    /\ calls' = calls + 1
    /\ UNCHANGED <<cast, arg, file, script, run>>

SpecInsert == InitInsert /\ [][CallInsertEvents]_vars

\* Some choice of the positions of the output that hold the existing events:
\* both inputs keep their order, and at equal times no incoming event comes
\* before an existing one.
Pick(out, S) ==
    LET F[i \in 0..Len(out)] ==
            IF i = 0 THEN <<>>
            ELSE IF i \in S THEN Append(F[i - 1], out[i]) ELSE F[i - 1]
    IN  F[Len(out)]

IsStableInterleaving(out, existing, incoming) ==
    \E S \in SUBSET (1..Len(out)) :
        /\ Pick(out, S) = existing
        /\ Pick(out, (1..Len(out)) \ S) = incoming
        /\ \A i \in 1..Len(out) : \A j \in 1..Len(out) :
               (i < j /\ out[i].time = out[j].time) => ~(i \notin S /\ j \in S)

\* C1: for time-sorted existing and incoming events (either may be empty),
\* insert_events returns a cast whose events are time-sorted, as many as both
\* inputs together, and a stable interleaving of the two with existing events
\* before incoming events at equal times.
C1_InsertIsStableMerge ==
    (pc = "done" /\ IsTimeSorted(arg)) =>
        /\ IsCast(ret)
        /\ IsTimeSorted(ret.value.events)
        /\ Len(ret.value.events) = Len(cast.events) + Len(arg)
        /\ IsStableInterleaving(ret.value.events, cast.events, arg)
        /\ ret.value.header = cast.header

\* C1 witness: a merge of two non-empty lists in which an incoming event ties
\* with an existing one and another incoming event has been drained before it.
C1_Witness ==
    /\ pc = "done"
    /\ IsTimeSorted(arg)
    /\ Len(cast.events) >= 1
    /\ Len(arg) = 2
    /\ arg[1].time < cast.events[1].time
    /\ arg[2].time = cast.events[1].time
    /\ IsCast(ret)

\* C2: for every existing event list, the empty one included, insert_events
\* of an incoming list that is not time-sorted raises the unsorted-input
\* error and returns no cast.
C2_UnsortedIncomingRaises ==
    (pc = "done" /\ ~IsTimeSorted(arg)) =>
        /\ IsRaise(ret)
        /\ ret.msg = "Events must be sorted chronologically"

(***************************************************************************)
(* script.py: the four filters (51-118) and AsciiCast.filter_events        *)
(* (cast.py 107-111).                                                      *)
(***************************************************************************)
MaxEvents == 3      \* longest event list handed to a filter

RegexReplacementFilter(regex, replacement) ==
    [filter_id |-> "RegexReplacementFilter", regex |-> regex,
     replacement |-> replacement]
StartMarkerFilter(start_label) ==
    [filter_id |-> "StartMarkerFilter", start_label |-> start_label]
EndMarkerFilter(end_label) ==
    [filter_id |-> "EndMarkerFilter", end_label |-> end_label]
CommentFilter == [filter_id |-> "CommentFilter"]

isinstance(event, class) == event.event_id = class

\* re.sub(regex, replacement, data) for a regex that is one literal character:
\* every occurrence of the character is replaced.
RECURSIVE re_sub(_, _, _)
re_sub(regex, replacement, data) ==
    IF data = <<>> THEN <<>>
    ELSE (IF <<Head(data)>> = regex THEN replacement ELSE <<Head(data)>>)
             \o re_sub(regex, replacement, Tail(data))

\* RegexReplacementFilter.modify_event (56-61)
RegexModifyEvent(self, event) ==
    IF isinstance(event, "OutputEvent")
    THEN [event EXCEPT !.data = re_sub(self.regex, self.replacement, event.data)]
    ELSE event

\* RegexReplacementFilter.apply (63-65)
RegexApply(self, header, events) ==
    [i \in 1..Len(events) |-> RegexModifyEvent(self, events[i])]

\* lines 78-80 without the comparison of labels
StartsHereAnyMarker(self, event) == isinstance(event, "MarkerEvent")

\* lines 78-80: the event that starts the kept part
StartsHere(self, event) ==
    isinstance(event, "MarkerEvent") /\ event.label = self.start_label

\* StartMarkerFilter.apply (72-81): the loop, on its locals new_events, started
RECURSIVE StartLoop(_, _, _, _)
StartLoop(self, new_events, started, events) ==
    IF events = <<>> THEN new_events
    ELSE IF started
    THEN StartLoop(self, Append(new_events, Head(events)), started, Tail(events))
    ELSE IF StartsHere(self, Head(events))
    THEN StartLoop(self, new_events, TRUE, Tail(events))
    ELSE StartLoop(self, new_events, started, Tail(events))

StartMarkerApply(self, header, events) == StartLoop(self, <<>>, FALSE, events)

\* lines 91-93 without the comparison of labels
EndsHereAnyMarker(self, event) == isinstance(event, "MarkerEvent")

\* lines 91-93: the event at which the loop breaks
EndsHere(self, event) ==
    isinstance(event, "MarkerEvent") /\ event.label = self.end_label

\* EndMarkerFilter.apply (88-95)
RECURSIVE EndLoop(_, _, _)
EndLoop(self, new_events, events) ==
    IF events = <<>> THEN new_events
    ELSE IF EndsHere(self, Head(events)) THEN new_events
    ELSE EndLoop(self, Append(new_events, Head(events)), Tail(events))

EndMarkerApply(self, header, events) == EndLoop(self, <<>>, events)

\* str(n) for n >= 0, as characters
Digit(d) == <<"0", "1", "2", "3", "4", "5", "6", "7", "8", "9">>[d + 1]

RECURSIVE Decimal(_)
Decimal(n) == IF n < 10 THEN <<Digit(n)>> ELSE Append(Decimal(n \div 10), Digit(n % 10))

Spaces(n) == [i \in 1..n |-> " "]

\* f'{text:^{num_cols}}': centred, the smaller half of the padding on the left;
\* a text as wide as num_cols or wider is left as it is.
Centred(text, num_cols) ==
    IF Len(text) >= num_cols THEN text
    ELSE LET pad == num_cols - Len(text)
         IN  Spaces(pad \div 2) \o text \o Spaces(pad - (pad \div 2))

ESC == "\\u001b"

\* modify_event converting only the comments placed at the bottom
CommentModifyEventKeepsTop(event, num_cols, num_rows) ==
    IF ~isinstance(event, "CommentEvent") THEN event
    ELSE IF event.top THEN event
    ELSE OutputEvent(event.time, <<ESC, "[", "s">>)

\* CommentFilter.modify_event (100-112)
CommentModifyEvent(event, num_cols, num_rows) ==
    IF ~isinstance(event, "CommentEvent") THEN event
    ELSE LET line_num == IF event.top THEN 1 ELSE num_rows
             rev_start == <<ESC, "[", "7", "m">>
             rev_end == <<ESC, "[", "m">>
             comment == rev_start \o Centred(event.comment, num_cols) \o rev_end
             data == <<ESC, "[", "s", ESC, "[">> \o Decimal(line_num)
                         \o <<";", "1", "H">> \o comment \o <<ESC, "[", "u">>
         IN  OutputEvent(event.time, data)

\* CommentFilter.apply (114-118)
CommentApply(self, header, events) ==
    LET w == header.width.v
        h == header.height.v
    IN  [i \in 1..Len(events) |-> CommentModifyEvent(events[i], w, h)]

\* event_filter.apply(header, events), by the filter's class
Apply(event_filter, header, events) ==
    CASE event_filter.filter_id = "RegexReplacementFilter" ->
             RegexApply(event_filter, header, events)
      [] event_filter.filter_id = "StartMarkerFilter" ->
             StartMarkerApply(event_filter, header, events)
      [] event_filter.filter_id = "EndMarkerFilter" ->
             EndMarkerApply(event_filter, header, events)
      [] event_filter.filter_id = "CommentFilter" ->
             CommentApply(event_filter, header, events)

\* AsciiCast.filter_events (cast.py 107-111)
RECURSIVE FilterLoop(_, _, _)
FilterLoop(header, event_list, filters) ==
    IF filters = <<>> THEN event_list
    ELSE FilterLoop(header, Apply(Head(filters), header, event_list), Tail(filters))

filter_events(self, filters) ==
    AsciiCast(self.header, FilterLoop(self.header, self.events, filters))

(***************************************************************************)
(* SpecFilter: one filter applied to every time-sorted event list within   *)
(* the bounds, under a wide and a narrow terminal.                         *)
(***************************************************************************)
NarrowHeader ==
    Header([version |-> PyNum(2), width |-> PyNum(1), height |-> PyNum(12)])

AllKindsOfEvents ==
    UNION {{OutputEvent(t, TextB), InputEvent(t, TextA), MarkerEvent(t, LabelX),
            MarkerEvent(t, LabelY), ResizeEvent(t, 12, 3),
            CommentEvent(t, TRUE, TextB), CommentEvent(t, FALSE, TextB)} :
           t \in Times}

BuiltinFilters ==
    {RegexReplacementFilter(<<"a">>, <<"c", "c">>), StartMarkerFilter(LabelX),
     EndMarkerFilter(LabelX), CommentFilter}

InitFilter ==
    /\ cast \in {AsciiCast(h, es) :
                    h \in {PlainHeader, NarrowHeader},
                    es \in {s \in SeqsUpTo(AllKindsOfEvents, MaxEvents) :
                               IsTimeSorted(s)}}
    /\ arg \in BuiltinFilters
    /\ ret = NoRet
    /\ file = [exists |-> FALSE, lines |-> <<>>]
    /\ pc = "apply"
    /\ calls = 0
    /\ script = NoScript
    /\ run = NoRun

CallApply ==
    /\ pc = "apply"
    /\ ret' = Returned("events", Apply(arg, cast.header, cast.events))
    /\ pc' = "done"
    /\ calls' = calls + 1
    /\ UNCHANGED <<cast, arg, file, script, run>>

SpecFilter == InitFilter /\ [][CallApply]_vars

IsMarker(event, label) == event.event_id = "MarkerEvent" /\ event.label = label

\* The positions of the Marker events labelled `label`.
MarkerPositions(events, label) == {i \in 1..Len(events) : IsMarker(events[i], label)}

\* The smallest element of a non-empty set of positions.
First(S) == CHOOSE i \in S : \A j \in S : i <= j

\* C3: StartMarkerFilter(label).apply returns exactly the events after the
\* first Marker with that label, in order (later markers with the label are
\* kept), and the empty sequence when there is no such Marker.
C3_StartMarkerKeepsSuffix ==
    (pc = "done" /\ arg.filter_id = "StartMarkerFilter") =>
        LET at == MarkerPositions(cast.events, arg.start_label)
        IN  /\ ret.kind = "events"
            /\ ret.value = IF at = {} THEN <<>>
                           ELSE SubSeq(cast.events, First(at) + 1, Len(cast.events))

\* C3 witness: the label occurs twice, with an event between, and the second
\* occurrence is kept.
C3_Witness ==
    /\ pc = "done"
    /\ arg.filter_id = "StartMarkerFilter"
    /\ Cardinality(MarkerPositions(cast.events, arg.start_label)) = 2
    /\ IsMarker(cast.events[1], LabelY)
    /\ Len(ret.value) = 1
    /\ IsMarker(ret.value[1], arg.start_label)

\* C4: EndMarkerFilter(label).apply returns exactly the events strictly before
\* the first Marker with that label, in order, and the whole input when there
\* is no such Marker.
C4_EndMarkerKeepsPrefix ==
    (pc = "done" /\ arg.filter_id = "EndMarkerFilter") =>
        LET at == MarkerPositions(cast.events, arg.end_label)
        IN  /\ ret.kind = "events"
            /\ ret.value = IF at = {} THEN cast.events
                           ELSE SubSeq(cast.events, 1, First(at) - 1)

\* C4 witness: a Marker with another label is kept, the first Marker with the
\* label and the event after it are dropped.
C4_Witness ==
    /\ pc = "done"
    /\ arg.filter_id = "EndMarkerFilter"
    /\ Len(cast.events) = 3
    /\ IsMarker(cast.events[1], LabelY)
    /\ IsMarker(cast.events[2], arg.end_label)
    /\ ret.value = <<cast.events[1]>>

\* C6: CommentFilter.apply returns as many events as it was given, none of
\* them a Comment: a Comment becomes an Output event with the same time, and
\* every other event is passed through unchanged at its position.
C6_CommentFilterConverts ==
    (pc = "done" /\ arg.filter_id = "CommentFilter") =>
        /\ ret.kind = "events"
        /\ Len(ret.value) = Len(cast.events)
        /\ \A i \in 1..Len(cast.events) :
               /\ ret.value[i].event_id /= "CommentEvent"
               /\ IF cast.events[i].event_id = "CommentEvent"
                  THEN /\ ret.value[i].event_id = "OutputEvent"
                       /\ ret.value[i].time = cast.events[i].time
                  ELSE ret.value[i] = cast.events[i]

\* C6 witness: a top and a bottom Comment among other events, both converted.
C6_Witness ==
    /\ pc = "done"
    /\ arg.filter_id = "CommentFilter"
    /\ \E i, j, k \in 1..Len(cast.events) :
           /\ cast.events[i].event_id = "CommentEvent" /\ cast.events[i].top
           /\ cast.events[j].event_id = "CommentEvent" /\ ~cast.events[j].top
           /\ cast.events[k].event_id = "MarkerEvent"
           /\ ret.value[i].event_id = "OutputEvent"
           /\ ret.value[j].event_id = "OutputEvent"

(***************************************************************************)
(* cast.py: Header.as_data, Event.as_data, AsciiCast.to_lines, save, load  *)
(* and parse_cast.                                                         *)
(***************************************************************************)
MaxOptional == 2    \* most optional header fields set in one header

\* dataclasses.asdict on a field's value: a dataclass instance becomes a dict
AsDict(value) ==
    IF value.py = "Theme"
    THEN PyDict([fg |-> value.fg, bg |-> value.bg, palette |-> value.palette])
    ELSE value

\* Header.as_data (30-35): only the fields that carry a value
HeaderAsData(self) ==
    PyDict([name \in {n \in HeaderFields : AsDict(self[n]).py /= "NoneType"} |->
                AsDict(self[name])])

CommentMustBeFiltered == Raised("ValueError", "Comment events must be filtered", None)

\* as_data of the event classes (53-54, 61-62, 69-70, 85-86, 94-95)
EventAsData(event) ==
    CASE event.event_id = "OutputEvent" ->
             Returned("record",
                      PyList(<<PyNum(event.time), PyStr(<<"o">>), PyStr(event.data)>>))
      [] event.event_id = "InputEvent" ->
             Returned("record",
                      PyList(<<PyNum(event.time), PyStr(<<"i">>), PyStr(event.data)>>))
      [] event.event_id = "MarkerEvent" ->
             Returned("record",
                      PyList(<<PyNum(event.time), PyStr(<<"m">>), PyStr(event.label)>>))
      [] event.event_id = "CommentEvent" -> CommentMustBeFiltered
      [] event.event_id = "ResizeEvent" ->
             Returned("record",
                      PyList(<<PyNum(event.time), PyStr(<<"r">>),
                               PyStr(Decimal(event.columns) \o <<"x">>
                                         \o Decimal(event.rows))>>))

\* json.dumps of a record of dicts, lists, strings and numbers gives one line
\* of text, and json.loads of that line gives the record back.
JsonDumps(record) == [json |-> record]
JsonLoads(line) == line.json

\* line 159: the list comprehension stops at the first event that raises
RECURSIVE EventRecords(_, _)
EventRecords(records, events) ==
    IF events = <<>> THEN Returned("records", records)
    ELSE LET r == EventAsData(Head(events))
         IN  IF IsRaise(r) THEN r
             ELSE EventRecords(Append(records, r.value), Tail(events))

\* AsciiCast.to_lines (157-161)
to_lines(self) ==
    LET header_record == HeaderAsData(self.header)
        event_records == EventRecords(<<>>, self.events)
    IN  IF IsRaise(event_records) THEN event_records
        ELSE LET records == <<header_record>> \o event_records.value
             IN  Returned("lines", [i \in 1..Len(records) |-> JsonDumps(records[i])])

NoFile == [exists |-> FALSE, lines |-> <<>>]

\* open(cast_file, 'w'): the file exists and is empty
OpenForWriting(cast_file) == [exists |-> TRUE, lines |-> <<>>]

\* save with the file opened before to_lines is called
save_opening_first(self, cast_file) ==
    LET lines == to_lines(self)
    IN  IF IsRaise(lines) THEN [ret |-> lines, file |-> OpenForWriting(cast_file)]
        ELSE [ret |-> Returned("saved", PyNone),
              file |-> [exists |-> TRUE, lines |-> lines.value]]

\* AsciiCast.save (163-171): what it gives back and what the file holds after
save(self, cast_file) ==
    LET lines == to_lines(self)
    IN  IF IsRaise(lines) THEN [ret |-> lines, file |-> cast_file]
        ELSE [ret |-> Returned("saved", PyNone),
              file |-> [OpenForWriting(cast_file) EXCEPT !.lines = @ \o lines.value]]

\* float(x), for the values a decoded line can hold: the float, or the exception
IsDigits(s) ==
    /\ s /= <<>>
    /\ \A i \in 1..Len(s) : s[i] \in {"0", "1", "2", "3", "4", "5", "6", "7", "8", "9"}

DigitValue(c) == CHOOSE d \in 0..9 : Digit(d) = c

\* int(s) for a string of digits
RECURSIVE ParseDecimal(_)
ParseDecimal(s) ==
    IF Len(s) = 1 THEN DigitValue(s[1])
    ELSE 10 * ParseDecimal(SubSeq(s, 1, Len(s) - 1)) + DigitValue(s[Len(s)])

FloatOfStr(s) ==
    IF IsDigits(s) THEN Returned("float", ParseDecimal(s))
    ELSE IF s /= <<>> /\ s[1] = "-" /\ IsDigits(Tail(s))
    THEN Returned("float", 0 - ParseDecimal(Tail(s)))
    ELSE IF s = <<"i", "n", "f">> THEN Returned("float", "inf")
    ELSE IF s = <<"n", "a", "n">> THEN Returned("float", "nan")
    ELSE Raised("ValueError", "could not convert string to float", None)

FloatOf(x) ==
    CASE x.py = "num" -> Returned("float", x.v)
      [] x.py = "bool" -> Returned("float", IF x.v THEN 1 ELSE 0)
      [] x.py = "inf" -> Returned("float", "inf")
      [] x.py = "-inf" -> Returned("float", "-inf")
      [] x.py = "nan" -> Returned("float", "nan")
      [] x.py = "str" -> FloatOfStr(x.v)
      [] OTHER -> Raised("TypeError", "float() argument must be a string or a real number",
                         None)

\* resize_re (187): ^([0-9]+)x([0-9]+)$ matched against data; $ also matches
\* before one trailing newline.  The match's two groups, or None.
ResizeMatch(data) ==
    LET s == IF data /= <<>> /\ data[Len(data)] = "\n"
             THEN SubSeq(data, 1, Len(data) - 1) ELSE data
        xs == {i \in 1..Len(s) : s[i] = "x"}
    IN  IF Cardinality(xs) = 1
        THEN LET x == CHOOSE i \in xs : TRUE
                 cols == SubSeq(s, 1, x - 1)
                 rows == SubSeq(s, x + 1, Len(s))
             IN  IF IsDigits(cols) /\ IsDigits(rows) THEN Some(<<cols, rows>>) ELSE None
        ELSE None

IsStr(x, s) == x.py = "str" /\ x.v = s

\* lines 189-219: one event line, 0-based index ix: the event, or the exception
ParseEventLine(ix, line) ==
    IF ~(line.py = "list" /\ Len(line.v) = 3)
    THEN Raised("ValueError", "Invalid event", Some(ix + 1))
    ELSE LET time_str == line.v[1]
             event_code == line.v[2]
             data == line.v[3]
             time == FloatOf(time_str)
         IN  IF IsRaise(time) /\ time.type = "ValueError"
             \* line 197: the message is not an f-string and holds no line number
             THEN Raised("ValueError", "Invalid event time", None)
             ELSE IF IsRaise(time) THEN time
             ELSE IF IsStr(event_code, <<"o">>)
             THEN Returned("event", OutputEvent(time.value, data.v))
             ELSE IF IsStr(event_code, <<"i">>)
             THEN Returned("event", InputEvent(time.value, data.v))
             ELSE IF IsStr(event_code, <<"r">>)
             THEN IF data.py /= "str"
                  THEN Raised("TypeError", "expected string or bytes-like object", None)
                  ELSE LET m == ResizeMatch(data.v)
                       IN  IF m = None
                           THEN Raised("ValueError", "Invalid resize data", Some(ix + 1))
                           ELSE Returned("event",
                                         ResizeEvent(time.value, ParseDecimal(m[1][1]),
                                                     ParseDecimal(m[1][2])))
             ELSE IF IsStr(event_code, <<"m">>)
             THEN Returned("event", MarkerEvent(time.value, data.v))
             ELSE Raised("ValueError", "Invalid event code", Some(ix + 1))

\* lines 188-219: the loop over data[1:], on its locals ix and events
RECURSIVE ParseEvents(_, _, _)
ParseEvents(ix, events, lines) ==
    IF lines = <<>> THEN Returned("events", events)
    ELSE LET event == ParseEventLine(ix, Head(lines))
         IN  IF IsRaise(event) THEN event
             ELSE ParseEvents(ix + 1, Append(events, event.value), Tail(lines))

\* lines 175-185: the header, or the exception
ParseHeader(record) ==
    IF record.py /= "dict" THEN Raised("ValueError", "Missing asciicast header", None)
    ELSE IF ~(DOMAIN record.v \subseteq HeaderFields
              /\ RequiredFields \subseteq DOMAIN record.v)
    THEN Raised("ValueError", "Invalid header data", None)
    ELSE LET header == Header(record.v)
         IN  IF ~(header.version.py \in {"num"} /\ header.version.v = 2)
             THEN Raised("ValueError", "Unsupported file format version", None)
             ELSE Returned("header", header)

\* parse_cast with the version compared after the event lines are read
parse_cast_events_first(data) ==
    LET events == ParseEvents(0, <<>>, Tail(data))
        header == ParseHeader(data[1])
    IN  IF IsRaise(header) /\ header.msg /= "Unsupported file format version" THEN header
        ELSE IF IsRaise(events) THEN events
        ELSE IF IsRaise(header) THEN header
        ELSE Returned("cast", AsciiCast(header.value, events.value))

\* parse_cast (174-220)
parse_cast(data) ==
    LET header == ParseHeader(data[1])
    IN  IF IsRaise(header) THEN header
        ELSE LET events == ParseEvents(0, <<>>, Tail(data))
             IN  IF IsRaise(events) THEN events
                 ELSE Returned("cast", AsciiCast(header.value, events.value))

\* AsciiCast.load (148-155)
load(cast_file) ==
    parse_cast([i \in 1..Len(cast_file.lines) |-> JsonLoads(cast_file.lines[i])])

(***************************************************************************)
(* SpecSave: save, then load what was saved, on every cast within the      *)
(* bounds: headers with up to MaxOptional optional fields set, time-sorted *)
(* events of all five kinds, and a target file that is absent or holds an  *)
(* earlier recording.  arg holds the target file as it was before save.    *)
(***************************************************************************)
OptionalValue(name) ==
    CASE name = "timestamp" -> PyNum(7)
      [] name = "duration" -> PyNum(9)
      [] name = "idle_time_limit" -> PyNum(1)
      [] name = "command" -> PyStr(<<"s", "h">>)
      [] name = "title" -> PyStr(<<"t">>)
      [] name = "env" -> PyDict([SHELL |-> PyStr(<<"s", "h">>)])
      [] name = "theme" -> Theme(PyStr(<<"#", "f">>), PyStr(<<"#", "0">>),
                                 PyList(<<PyStr(<<"#", "1">>)>>))

HeaderWith(S) ==
    Header([n \in RequiredFields \cup S |->
                IF n \in RequiredFields THEN PlainHeader[n] ELSE OptionalValue(n)])

SavedHeaders ==
    {HeaderWith(S) : S \in {T \in SUBSET OptionalFields : Cardinality(T) <= MaxOptional}}

SavedEvents ==
    UNION {{OutputEvent(t, TextB), InputEvent(t, TextA), MarkerEvent(t, LabelX),
            ResizeEvent(t, 12, 3), CommentEvent(t, FALSE, TextA)} : t \in Times}

EarlierFile == [exists |-> TRUE, lines |-> to_lines(AsciiCast(PlainHeader, <<>>)).value]

InitSave ==
    /\ cast \in {AsciiCast(h, es) :
                    h \in SavedHeaders,
                    es \in {s \in SeqsUpTo(SavedEvents, MaxLen) : IsTimeSorted(s)}}
    /\ file \in {NoFile, EarlierFile}
    /\ arg = file
    /\ ret = NoRet
    /\ pc = "save"
    /\ calls = 0
    /\ script = NoScript
    /\ run = NoRun

CallSave ==
    /\ pc = "save"
    /\ LET saved == save(cast, file)
       IN  /\ ret' = saved.ret
           /\ file' = saved.file
           /\ pc' = IF IsRaise(saved.ret) THEN "failed" ELSE "saved"
    /\ calls' = calls + 1
    /\ UNCHANGED <<cast, arg, script, run>>

CallLoad ==
    /\ pc = "saved"
    /\ ret' = load(file)
    /\ pc' = "loaded"
    /\ calls' = calls + 1
    /\ UNCHANGED <<cast, arg, file, script, run>>

NextSave == CallSave \/ CallLoad

SpecSave == InitSave /\ [][NextSave]_vars

HasComment(events) == \E i \in 1..Len(events) : events[i].event_id = "CommentEvent"

\* C5: saving a cast whose events hold a Comment, at any position, fails as a
\* whole: the error is raised and the target file is as it was before the
\* call, neither created, truncated nor partly written.
C5_CommentFailsSaveUntouched ==
    (pc /= "save" /\ HasComment(cast.events)) =>
        /\ pc = "failed"
        /\ ret = CommentMustBeFiltered
        /\ file = arg

\* C5 witness: the Comment is the last of several events and the target file
\* exists before the call.
C5_Witness ==
    /\ pc = "failed"
    /\ Len(cast.events) >= 2
    /\ cast.events[Len(cast.events)].event_id = "CommentEvent"
    /\ cast.events[1].event_id = "OutputEvent"
    /\ arg = EarlierFile
    /\ file = EarlierFile

\* C7: for every cast without Comment events (any header, optional fields
\* absent or set, a theme included), to_lines followed by parse_cast of the
\* decoded lines gives a cast equal to the original.
C7_RoundTrip ==
    pc = "loaded" => (IsCast(ret) /\ ret.value = cast)

(***************************************************************************)
(* SpecParse: parse_cast on a first record of every shape followed by up   *)
(* to MaxLines event lines, well-formed and malformed.                     *)
(***************************************************************************)
MaxLines == 2       \* most event lines after the first record

HeaderDict(version) == [version |-> version, width |-> PyNum(5), height |-> PyNum(3)]

FirstRecords ==
    {PyDict(HeaderDict(PyNum(v))) : v \in 1..3}
        \cup {PyDict(HeaderDict(PyStr(<<"2">>))),
              PyDict([version |-> PyNum(3), width |-> PyNum(5)]),
              PyDict([version |-> PyNum(3), width |-> PyNum(5), height |-> PyNum(3),
                      colour |-> PyStr(<<"t">>)]),
              PyDict([n \in RequiredFields \cup {"title"} |->
                          IF n = "title" THEN PyStr(<<"t">>) ELSE HeaderDict(PyNum(2))[n]]),
              PyList(<<PyNum(0), PyStr(<<"o">>), PyStr(TextA)>>)}

EventTimeValues ==
    {PyNum(0), PyNum(1), PyNum(0 - 1), PyInf, PyNegInf, PyNaN, PyNone,
     PyStr(<<"1">>), PyStr(<<"a">>)}

EventLines ==
    {PyList(<<t, PyStr(<<"o">>), PyStr(TextA)>>) : t \in EventTimeValues}
        \cup {PyList(<<PyNum(1), PyStr(<<c>>), PyStr(LabelX)>>) : c \in {"i", "m", "c", "x"}}
        \cup {PyList(<<PyNum(1), PyStr(<<"r">>), d>>) :
                 d \in {PyStr(<<"1", "2", "x", "3">>), PyStr(<<"1", "2", "x">>),
                        PyStr(<<"x", "3">>), PyStr(<<"1", "2", "X", "3">>), PyNum(3)}}
        \cup {PyList(<<PyNum(1), PyStr(<<"o">>)>>), PyStr(<<"o">>),
              PyList(<<PyStr(<<"a">>), PyStr(<<"x">>), PyStr(TextA)>>)}

InitParse ==
    /\ arg \in {<<first>> \o lines :
                   first \in FirstRecords, lines \in SeqsUpTo(EventLines, MaxLines)}
    /\ cast = AsciiCast(PlainHeader, <<>>)
    /\ file = NoFile
    /\ ret = NoRet
    /\ pc = "parse"
    /\ calls = 0
    /\ script = NoScript
    /\ run = NoRun

CallParseCast ==
    /\ pc = "parse"
    /\ ret' = parse_cast(arg)
    /\ pc' = "done"
    /\ calls' = calls + 1
    /\ UNCHANGED <<cast, arg, file, script, run>>

SpecParse == InitParse /\ [][CallParseCast]_vars

\* The first record is a header: a dict with the header's required fields and
\* no field the header does not have.
IsHeaderRecord(record) ==
    /\ record.py = "dict"
    /\ DOMAIN record.v \subseteq HeaderFields
    /\ RequiredFields \subseteq DOMAIN record.v

VersionIs2(record) == record.v.version.py = "num" /\ record.v.version.v = 2

\* C9: when the first record is a header whose version is not 2, parse_cast
\* fails with the unsupported-version error whatever event lines follow.
C9_VersionGate ==
    (pc = "done" /\ IsHeaderRecord(arg[1]) /\ ~VersionIs2(arg[1])) =>
        /\ IsRaise(ret)
        /\ ret.msg = "Unsupported file format version"

\* C9 witness: a version 3 header followed by an event line that is itself
\* malformed.
C9_Witness ==
    /\ pc = "done"
    /\ IsHeaderRecord(arg[1])
    /\ arg[1].v.version = PyNum(3)
    /\ Len(arg) >= 2
    /\ arg[2].py = "str"
    /\ IsRaise(ret)

\* A time that is not a finite non-negative number: negative, infinite,
\* not-a-number, or no number at all.
IsNumeric(s) == IsDigits(s) \/ (s /= <<>> /\ s[1] = "-" /\ IsDigits(Tail(s)))

IsBadTime(t) ==
    \/ t.py \in {"inf", "-inf", "nan", "NoneType", "list", "dict"}
    \/ (t.py = "num" /\ t.v < 0)
    \/ (t.py = "str" /\ (~IsNumeric(t.v) \/ t.v[1] = "-"))

\* C10: after a version 2 header, a first event line of three elements whose
\* time is negative, infinite, not-a-number or not a number makes parse_cast
\* fail with the invalid-event-time error; no cast is returned.
C10_BadTimeRejected ==
    (/\ pc = "done"
     /\ IsHeaderRecord(arg[1]) /\ VersionIs2(arg[1])
     /\ Len(arg) >= 2
     /\ arg[2].py = "list" /\ Len(arg[2].v) = 3
     /\ IsBadTime(arg[2].v[1])) =>
        /\ IsRaise(ret)
        /\ ret.type = "ValueError"
        /\ ret.msg = "Invalid event time"

(***************************************************************************)
(* Spec: the post-processing calls of Script.run (script.py 315-317) in    *)
(* any order and number up to MaxCalls: cast = cast.insert_events(...) and *)
(* cast = cast.filter_events(...), starting from a time-sorted recording.  *)
(***************************************************************************)
MaxCalls == 2       \* most calls made on one cast
MaxFilters == 2     \* longest filter list of one filter_events call

Init ==
    /\ cast \in {AsciiCast(PlainHeader, es) :
                    es \in {s \in SeqsUpTo(RecordedEvents, MaxLen) : IsTimeSorted(s)}}
    /\ arg = <<>>
    /\ ret = NoRet
    /\ file = NoFile
    /\ pc = "run"
    /\ calls = 0
    /\ script = NoScript
    /\ run = NoRun

RunInsertEvents ==
    /\ pc = "run"
    /\ calls < MaxCalls
    /\ \E events \in SeqsUpTo(ScriptEvents, MaxLen) :
           /\ arg' = events
           /\ ret' = insert_events(cast, events)
           /\ cast' = IF IsCast(ret') THEN ret'.value ELSE cast
    /\ calls' = calls + 1
    /\ UNCHANGED <<file, pc, script, run>>

RunFilterEvents ==
    /\ pc = "run"
    /\ calls < MaxCalls
    /\ \E filters \in SeqsUpTo(BuiltinFilters, MaxFilters) :
           /\ arg' = filters
           /\ ret' = Returned("cast", filter_events(cast, filters))
           /\ cast' = ret'.value
    /\ calls' = calls + 1
    /\ UNCHANGED <<file, pc, script, run>>

Next == RunInsertEvents \/ RunFilterEvents

Spec == Init /\ [][Next]_vars

\* C8: every cast obtained from a cast with time-sorted events by successfully
\* returning insert_events and filter_events calls has time-sorted events.
C8_EventsStaySorted == IsTimeSorted(cast.events)

(***************************************************************************)
(* The line number and the constraint of a rejected event line, under      *)
(* SpecParse.                                                              *)
(***************************************************************************)
\* The constraint an event line violates, going by its shape alone: "" when
\* it violates none.
ViolatedConstraint(line) ==
    IF ~(line.py = "list" /\ Len(line.v) = 3) THEN "Invalid event"
    ELSE IF \/ line.v[1].py \in {"NoneType", "list", "dict"}
            \/ (line.v[1].py = "str" /\ ~IsNumeric(line.v[1].v))
    THEN "Invalid event time"
    ELSE IF ~(\E c \in {"o", "i", "r", "m"} : IsStr(line.v[2], <<c>>))
    THEN "Invalid event code"
    ELSE IF IsStr(line.v[2], <<"r">>)
            /\ (line.v[3].py /= "str" \/ ResizeMatch(line.v[3].v) = None)
    THEN "Invalid resize data"
    ELSE ""

\* The number of the first event line that violates a constraint, the header
\* being line 0 and the first event line 1; 0 when no event line does.
FirstViolatingLine(data) ==
    LET bad == {k \in 1..(Len(data) - 1) : ViolatedConstraint(data[k + 1]) /= ""}
    IN  IF bad = {} THEN 0 ELSE First(bad)

\* C11: whenever parse_cast rejects an event line (not a 3-element list,
\* invalid time, kind tag outside o/i/r/m, resize payload not cols x rows),
\* the error names the violated constraint and carries the number of the
\* offending line, the header being line 0 and the first event line 1.
C11_RejectionCarriesLine ==
    (/\ pc = "done"
     /\ IsHeaderRecord(arg[1]) /\ VersionIs2(arg[1])
     /\ IsRaise(ret) /\ ret.type = "ValueError") =>
        /\ FirstViolatingLine(arg) >= 1
        /\ ret.msg = ViolatedConstraint(arg[FirstViolatingLine(arg) + 1])
        /\ ret.line = Some(FirstViolatingLine(arg))

(***************************************************************************)
(* script.py: the actions, Script and its builder methods (15-38,          *)
(* 170-222).  An instance of a dataclass is a record of its fields; every  *)
(* other value held by a Script carries its Python type.  Durations are    *)
(* whole milliseconds.                                                     *)
(***************************************************************************)
PyTuple(s) == [py |-> "tuple", v |-> s]

Input(text, pre_nl_delay, post_nl_delay) ==
    [action_id |-> "Input", text |-> text, pre_nl_delay |-> pre_nl_delay,
     post_nl_delay |-> post_nl_delay]
Marker(label) == [action_id |-> "Marker", label |-> label]
Comment(comment) == [action_id |-> "Comment", comment |-> comment]

\* isinstance(value, str) / isinstance(value, tuple), for a value held by a Script
IsPy(value, type) == "py" \in DOMAIN value /\ value.py = type

\* tuple(xs)
tuple(xs) == PyTuple(xs.v)

\* a pair of durations, as held by the three delay ranges of a Script
Range(low, high) == PyTuple(<<PyNum(low), PyNum(high)>>)

NoKwargs == <<>>

\* Script.default (185-202); kwargs names fields of Script only
default(output_file, kwargs) ==
    LET defaults == [output_file |-> PyStr(output_file),
                     start_delay |-> PyNum(300),
                     end_delay |-> PyNum(500),
                     typing_delay |-> Range(50, 100),
                     pre_nl_delay |-> Range(200, 200),
                     post_nl_delay |-> Range(800, 1000),
                     with_comments |-> PyBool(FALSE),
                     comments_at_top |-> PyBool(FALSE),
                     actions |-> PyTuple(<<>>),
                     filters |-> PyTuple(<<>>),
                     cols |-> PyNone,
                     rows |-> PyNone]
    IN  [k \in DOMAIN defaults |->
            IF k \in DOMAIN kwargs THEN kwargs[k] ELSE defaults[k]]

\* line 207-209: any(isinstance(f, CommentFilter) for f in self.filters)
HasCommentFilter(filters) ==
    \E i \in 1..Len(filters.v) : filters.v[i].filter_id = "CommentFilter"

\* Script.with_comments_enabled (204-216)
with_comments_enabled(self, at_top) ==
    LET filters == IF HasCommentFilter(self.filters) THEN self.filters
                   ELSE PyTuple(self.filters.v \o <<CommentFilter>>)
    IN  [self EXCEPT !.with_comments = PyBool(TRUE),
                     !.comments_at_top = PyBool(at_top),
                     !.filters = filters]

\* Script.with_actions (218-219)
with_actions(self, actions) == [self EXCEPT !.actions = tuple(actions)]

\* Script.with_filters (221-222)
with_filters(self, filters) == [self EXCEPT !.filters = tuple(filters)]

(***************************************************************************)
(* Script.run (224-318): the session, then the post-processing.            *)
(***************************************************************************)
MaxActions == 3     \* longest action list of a script that is run
MaxOutputs == 2     \* most output events in the recording asciinema writes

\* rng.uniform(low, high): the low end and the middle of the range stand for it
Samples(range) == {range[1].v, (range[1].v + range[2].v) \div 2}

\* send_line (159-167): the time at which it returns; it returns final_delay
SendLine(now, content, typing, pre_nl, final_delay) ==
    now + Len(content) * typing + pre_nl + final_delay

\* lines 282-285, 289-292: round(time.time() - t0 - 0.8 * newline_delay, 3)
RelTime(now, newline_delay) == now - (8 * newline_delay) \div 10

\* lines 270, 273-280: the range rng.uniform draws the delay after the newline from
PostNlRange(self, action) ==
    IF IsPy(action, "str") THEN self.post_nl_delay.v
    ELSE IF action.action_id = "Input"
    THEN Range(action.post_nl_delay, action.post_nl_delay).v
    ELSE Range(0, 0).v

PreNlRange(self, action) ==
    IF IsPy(action, "str") THEN self.pre_nl_delay.v
    ELSE IF action.action_id = "Input"
    THEN Range(action.pre_nl_delay, action.pre_nl_delay).v
    ELSE Range(0, 0).v

\* lines 267-304: one iteration of the loop over self.actions, on run's locals
RunAction(self, fr, action, typing, pre_nl, final_delay) ==
    IF IsPy(action, "str")
    THEN [fr EXCEPT !.ix = @ + 1,
                    !.now = SendLine(@, action.v, typing, pre_nl, final_delay),
                    !.newline_delay = final_delay]
    ELSE IF action.action_id = "Input"
    THEN [fr EXCEPT !.ix = @ + 1,
                    !.now = SendLine(@, action.text, typing, pre_nl, final_delay),
                    !.newline_delay = final_delay]
    ELSE IF action.action_id = "Marker"
    THEN [fr EXCEPT !.ix = @ + 1,
                    !.insert_events =
                        Append(@, MarkerEvent(RelTime(fr.now, fr.newline_delay),
                                              action.label))]
    ELSE [fr EXCEPT !.ix = @ + 1,
                    !.insert_events =
                        Append(@, CommentEvent(RelTime(fr.now, fr.newline_delay),
                                               self.comments_at_top.v, action.comment))]

AfterStepWithoutInsert(step) ==
    CASE step = "load" -> "filter"
      [] step = "insert" -> "filter"
      [] step = "filter" -> "save"
      [] step = "save" -> "done"

\* lines 315-318: the order of the post-processing
AfterStep(step) ==
    CASE step = "load" -> "insert"
      [] step = "insert" -> "filter"
      [] step = "filter" -> "save"
      [] step = "save" -> "done"

(***************************************************************************)
(* SpecRun: Script.run of every script within the bounds.  asciinema       *)
(* writes the recording when the session is closed; the times of its       *)
(* output events are not the script's to choose.                           *)
(***************************************************************************)
RunActions ==
    {PyStr(<<"l", "s">>), Input(<<"d", "u">>, 1000, 3000), Marker(LabelX),
     Marker(LabelY), Comment(TextA)}

RunFilters == {<<EndMarkerFilter(LabelY), CommentFilter>>, <<EndMarkerFilter(LabelY)>>}

RecordingTimes == {300, 2000}

Recordings ==
    {s \in SeqsUpTo({OutputEvent(t, TextB) : t \in RecordingTimes}, MaxOutputs) :
        IsTimeSorted(s)}

InitRun ==
    /\ script \in {with_filters(with_actions(default(<<"o">>, NoKwargs), PyList(as)),
                                PyList(fs)) :
                      as \in SeqsUpTo(RunActions, MaxActions), fs \in RunFilters}
    /\ run = NoRun
    /\ cast = AsciiCast(PlainHeader, <<>>)
    /\ arg = <<>>
    /\ ret = NoRet
    /\ file = NoFile
    /\ pc = "spawn"
    /\ calls = 0

\* lines 259-265: the session is started
RunSpawn ==
    /\ pc = "spawn"
    /\ run' = [ix |-> 1, now |-> script.start_delay.v, newline_delay |-> 0,
               insert_events |-> <<>>, recording |-> <<>>]
    /\ pc' = "actions"
    /\ UNCHANGED <<cast, arg, ret, file, calls, script>>

\* lines 267-304: the next action of the script
RunNextAction ==
    /\ pc = "actions"
    /\ run.ix <= Len(script.actions.v)
    /\ LET action == script.actions.v[run.ix]
       IN  \E typing \in Samples(script.typing_delay.v),
              pre_nl \in Samples(PreNlRange(script, action)),
              final_delay \in Samples(PostNlRange(script, action)) :
               run' = RunAction(script, run, action, typing, pre_nl, final_delay)
    /\ UNCHANGED <<cast, arg, ret, file, pc, calls, script>>

\* lines 306-308: the session is closed and asciinema has written output_file
RunClose ==
    /\ pc = "actions"
    /\ run.ix > Len(script.actions.v)
    /\ \E recording \in Recordings :
           /\ file' = [exists |-> TRUE,
                       lines |-> to_lines(AsciiCast(PlainHeader, recording)).value]
           /\ run' = [run EXCEPT !.now = @ + script.end_delay.v,
                                 !.recording = recording]
    /\ pc' = "load"
    /\ UNCHANGED <<cast, arg, ret, calls, script>>

\* line 315
PostLoad ==
    /\ pc = "load"
    /\ arg' = file
    /\ ret' = load(file)
    /\ cast' = IF IsCast(ret') THEN ret'.value ELSE cast
    /\ pc' = IF IsCast(ret') THEN AfterStep("load") ELSE "failed"
    /\ calls' = calls + 1
    /\ UNCHANGED <<file, script, run>>

\* line 316
PostInsertEvents ==
    /\ pc = "insert"
    /\ arg' = run.insert_events
    /\ ret' = insert_events(cast, run.insert_events)
    /\ cast' = IF IsCast(ret') THEN ret'.value ELSE cast
    /\ pc' = IF IsCast(ret') THEN AfterStep("insert") ELSE "failed"
    /\ calls' = calls + 1
    /\ UNCHANGED <<file, script, run>>

\* line 317
PostFilterEvents ==
    /\ pc = "filter"
    /\ arg' = script.filters
    /\ ret' = Returned("cast", filter_events(cast, script.filters.v))
    /\ cast' = ret'.value
    /\ pc' = AfterStep("filter")
    /\ calls' = calls + 1
    /\ UNCHANGED <<file, script, run>>

\* line 318
PostSave ==
    /\ pc = "save"
    /\ LET saved == save(cast, file)
       IN  /\ arg' = file
           /\ ret' = saved.ret
           /\ file' = saved.file
           /\ pc' = IF IsRaise(saved.ret) THEN "failed" ELSE AfterStep("save")
    /\ calls' = calls + 1
    /\ UNCHANGED <<cast, script, run>>

NextRun ==
    \/ RunSpawn
    \/ RunNextAction
    \/ RunClose
    \/ PostLoad
    \/ PostInsertEvents
    \/ PostFilterEvents
    \/ PostSave

SpecRun == InitRun /\ [][NextRun]_vars

MarkersOf(events) ==
    SelectSeq(events, LAMBDA e : e.event_id = "MarkerEvent")

\* The session recorded a marker labelled `label`, and the script's filters
\* are EndMarkerFilter(label) followed by CommentFilter.
TrimsAt(label) ==
    /\ script.filters = PyTuple(<<EndMarkerFilter(label), CommentFilter>>)
    /\ MarkerPositions(run.insert_events, label) /= {}

\* C12: run post-processes in the order load, insert_events, filter_events,
\* save.  With filters [EndMarkerFilter(L), CommentFilter] and recorded
\* markers M1..Mk followed by a marker labelled L, the save succeeds and the
\* saved cast holds exactly the markers M1..Mk in order, neither the L marker
\* nor any event after it, and no Comment.
C12_RunTrimsAndSaves ==
    (pc \in {"done", "failed"} /\ TrimsAt(LabelY)) =>
        LET at == First(MarkerPositions(run.insert_events, LabelY))
            before == SubSeq(run.insert_events, 1, at - 1)
            endTime == run.insert_events[at].time
            outputs == {i \in 1..Len(run.recording) : run.recording[i].time <= endTime}
        IN  /\ pc = "done"
            /\ calls = 4
            /\ ret = Returned("saved", PyNone)
            /\ file = [exists |-> TRUE, lines |-> to_lines(cast).value]
            /\ MarkersOf(cast.events) = MarkersOf(before)
            /\ ~HasComment(cast.events)
            /\ Len(cast.events) = Len(before) + Cardinality(outputs)
            /\ \A i \in 1..Len(cast.events) : cast.events[i].time <= endTime

\* C12 witness: a comment and a marker M1 recorded before the marker L, an
\* output of the recording after it; the saved cast holds M1 alone.
C12_Witness ==
    /\ pc = "done"
    /\ TrimsAt(LabelY)
    /\ Len(run.insert_events) = 3
    /\ run.insert_events[1].event_id = "CommentEvent"
    /\ IsMarker(run.insert_events[2], LabelX)
    /\ IsMarker(run.insert_events[3], LabelY)
    /\ Len(run.recording) = 2
    /\ MarkersOf(cast.events) = <<run.insert_events[2]>>
    /\ Len(cast.events) = 3

(***************************************************************************)
(* script.py: Script.to_dict, Script.from_dict and the parsers of actions  *)
(* and filters (121-156, 344-363).                                         *)
(***************************************************************************)
\* dataclasses.asdict on an element of a tuple: an instance of a dataclass
\* becomes the dict of its fields
AsDictItem(item) == IF "py" \in DOMAIN item THEN item ELSE PyDict(item)

\* dataclasses.asdict on the value of a field: a tuple stays a tuple
AsDictValue(value) ==
    IF IsPy(value, "tuple")
    THEN PyTuple([i \in 1..Len(value.v) |-> AsDictItem(value.v[i])])
    ELSE value

\* Script.to_dict (356-363)
to_dict(self) ==
    LET data == [k \in DOMAIN self |-> AsDictValue(self[k])]
    IN  PyDict([k \in DOMAIN data |->
                   IF IsPy(data[k], "tuple") THEN PyList(data[k].v) ELSE data[k]])

\* {k: v for k, v in tbl.items() if k != key}
Without(tbl, key) == [k \in DOMAIN tbl \ {key} |-> tbl[k]]

\* cls(**kwargs) for a dataclass whose id field is set by __post_init__ and
\* whose other fields have no defaults
New(id_field, class, fields, kwargs) ==
    IF DOMAIN kwargs = fields
    THEN Returned("instance",
                  [k \in fields \cup {id_field} |->
                      IF k = id_field THEN class ELSE kwargs[k]])
    ELSE Raised("TypeError", "", None)

ActionFields(s_class) ==
    CASE s_class = "Input" -> {"text", "pre_nl_delay", "post_nl_delay"}
      [] s_class = "Marker" -> {"label"}
      [] s_class = "Comment" -> {"comment"}

FilterFields(f_class) ==
    CASE f_class = "RegexReplacementFilter" -> {"regex", "replacement"}
      [] f_class = "StartMarkerFilter" -> {"start_label"}
      [] f_class = "EndMarkerFilter" -> {"end_label"}
      [] f_class = "CommentFilter" -> {}

\* parse_action (140-152)
parse_action(action_tbl) ==
    IF IsPy(action_tbl, "str") THEN Returned("instance", action_tbl)
    ELSE IF "action_id" \notin DOMAIN action_tbl.v
    THEN Raised("KeyError", "action_id", None)
    ELSE LET s_class == action_tbl.v.action_id
             kwargs == Without(action_tbl.v, "action_id")
         IN  IF s_class \in {"Input", "Marker", "Comment"}
             THEN New("action_id", s_class, ActionFields(s_class), kwargs)
             ELSE Raised("ValueError", "Invalid step", None)

\* parse_filter (121-133)
parse_filter(filter_tbl) ==
    IF "filter_id" \notin DOMAIN filter_tbl.v
    THEN Raised("KeyError", "filter_id", None)
    ELSE LET f_class == filter_tbl.v.filter_id
             kwargs == Without(filter_tbl.v, "filter_id")
         IN  IF f_class \in {"RegexReplacementFilter", "StartMarkerFilter",
                             "EndMarkerFilter", "CommentFilter"}
             THEN New("filter_id", f_class, FilterFields(f_class), kwargs)
             ELSE Raised("ValueError", "Invalid filter", None)

\* tuple(... for ... in ...): the first element that raises ends it
TupleOf(results) ==
    LET bad == {i \in 1..Len(results) : IsRaise(results[i])}
    IN  IF bad /= {}
        THEN results[CHOOSE i \in bad : \A j \in bad : i <= j]
        ELSE Returned("tuple", PyTuple([i \in 1..Len(results) |-> results[i].value]))

\* parse_actions (155-156)
parse_actions(action_list) ==
    TupleOf([i \in 1..Len(action_list.v) |-> parse_action(action_list.v[i])])

\* parse_filters (136-137)
parse_filters(filter_list) ==
    TupleOf([i \in 1..Len(filter_list.v) |-> parse_filter(filter_list.v[i])])

DelayRangeAsLoaded(value) == value

\* lines 348-350: tuple(script_data[...])
DelayRange(value) == tuple(value)

ScriptFields ==
    {"output_file", "start_delay", "end_delay", "typing_delay", "pre_nl_delay",
     "post_nl_delay", "with_comments", "comments_at_top", "actions", "filters",
     "cols", "rows"}

\* Script(**script_data) (170-183): cols and rows default to None
NewScript(script_data) ==
    IF /\ DOMAIN script_data \subseteq ScriptFields
       /\ ScriptFields \ {"cols", "rows"} \subseteq DOMAIN script_data
    THEN Returned("script",
                  [k \in ScriptFields |->
                      IF k \in DOMAIN script_data THEN script_data[k] ELSE PyNone])
    ELSE Raised("TypeError", "", None)

\* Script.from_dict (344-354)
from_dict(data) ==
    LET actions == parse_actions(data.v.actions)
        filters == parse_filters(data.v.filters)
    IN  IF IsRaise(actions) THEN actions
        ELSE IF IsRaise(filters) THEN filters
        ELSE NewScript([k \in DOMAIN data.v |->
                CASE k \in {"typing_delay", "pre_nl_delay", "post_nl_delay"} ->
                         DelayRange(data.v[k])
                  [] k = "actions" -> actions.value
                  [] k = "filters" -> filters.value
                  [] OTHER -> data.v[k]])

(***************************************************************************)
(* SpecDict: to_dict, then from_dict on its result, for every script the   *)
(* builder methods give within the bounds.                                 *)
(***************************************************************************)
DictActions ==
    {PyStr(<<"l", "s">>), Input(<<"d", "u">>, 1000, 3000), Marker(LabelX),
     Comment(TextA)}

\* tests/test_script_parsing.py: cols, rows and typing_delay given to default
SizedScript ==
    default(<<"o">>, [cols |-> PyNum(80), rows |-> PyNum(24),
                      typing_delay |-> Range(50, 250)])

WithActionsAndFilters ==
    {with_filters(with_actions(s, PyList(as)), PyList(fs)) :
        s \in {default(<<"o">>, NoKwargs), SizedScript},
        as \in SeqsUpTo(DictActions, MaxLen),
        fs \in SeqsUpTo(BuiltinFilters, MaxFilters)}

BuiltScripts ==
    WithActionsAndFilters
        \cup {with_comments_enabled(s, at_top) :
                 s \in WithActionsAndFilters, at_top \in BOOLEAN}

InitDict ==
    /\ script \in BuiltScripts
    /\ run = NoRun
    /\ cast = AsciiCast(PlainHeader, <<>>)
    /\ arg = <<>>
    /\ ret = NoRet
    /\ file = NoFile
    /\ pc = "to_dict"
    /\ calls = 0

CallToDict ==
    /\ pc = "to_dict"
    /\ arg' = to_dict(script)
    /\ pc' = "from_dict"
    /\ calls' = calls + 1
    /\ UNCHANGED <<cast, ret, file, script, run>>

CallFromDict ==
    /\ pc = "from_dict"
    /\ ret' = from_dict(arg)
    /\ pc' = "done"
    /\ calls' = calls + 1
    /\ UNCHANGED <<cast, arg, file, script, run>>

NextDict ==
    \/ CallToDict
    \/ CallFromDict

SpecDict == InitDict /\ [][NextDict]_vars

\* C13: for every Script built with default, with_actions, with_filters and
\* with_comments_enabled, from_dict(script.to_dict()) returns a script equal
\* to the original: same settings, same delay ranges, and the same actions
\* and filters in the same order with the same kinds and parameters.
C13_DictRoundTrip ==
    pc = "done" => ret = Returned("script", script)

\* C13 witness: a sized script with an Input and a plain line, a regex filter
\* and comments enabled has gone through to_dict and from_dict.
C13_Witness ==
    /\ pc = "done"
    /\ script.cols = PyNum(80)
    /\ script.with_comments = PyBool(TRUE)
    /\ script.actions = PyTuple(<<Input(<<"d", "u">>, 1000, 3000), PyStr(<<"l", "s">>)>>)
    /\ script.filters =
           PyTuple(<<RegexReplacementFilter(<<"a">>, <<"c", "c">>), CommentFilter>>)
    /\ arg.v.actions.py = "list"
    /\ arg.v.actions.v[1].py = "dict"
    /\ arg.v.typing_delay = PyList(<<PyNum(50), PyNum(250)>>)
    /\ ret.value = script

(***************************************************************************)
(* SpecBuild: the scripts that sequences of with_actions, with_filters and *)
(* with_comments_enabled produce from Script.default; arg holds the last   *)
(* call, its receiver and its arguments.                                   *)
(***************************************************************************)
BuildActions == {<<>>, <<PyStr(<<"l", "s">>)>>, <<Comment(TextA)>>}

BuildFilters == SeqsUpTo({CommentFilter, EndMarkerFilter(LabelX)}, MaxFilters)

Called(op, self, args) == [op |-> op, self |-> self, args |-> args]

InitBuild ==
    /\ script = default(<<"o">>, NoKwargs)
    /\ run = NoRun
    /\ cast = AsciiCast(PlainHeader, <<>>)
    /\ arg = Called("default", NoScript, <<"o">>)
    /\ ret = NoRet
    /\ file = NoFile
    /\ pc = "build"
    /\ calls = 0

CallWithActions ==
    /\ calls < MaxCalls
    /\ \E actions \in BuildActions :
           /\ arg' = Called("with_actions", script, actions)
           /\ script' = with_actions(script, PyList(actions))
    /\ calls' = calls + 1
    /\ UNCHANGED <<cast, ret, file, pc, run>>

CallWithFilters ==
    /\ calls < MaxCalls
    /\ \E filters \in BuildFilters :
           /\ arg' = Called("with_filters", script, filters)
           /\ script' = with_filters(script, PyList(filters))
    /\ calls' = calls + 1
    /\ UNCHANGED <<cast, ret, file, pc, run>>

CallWithCommentsEnabled ==
    /\ calls < MaxCalls
    /\ \E at_top \in BOOLEAN :
           /\ arg' = Called("with_comments_enabled", script, at_top)
           /\ script' = with_comments_enabled(script, at_top)
    /\ calls' = calls + 1
    /\ UNCHANGED <<cast, ret, file, pc, run>>

NextBuild ==
    \/ CallWithActions
    \/ CallWithFilters
    \/ CallWithCommentsEnabled

SpecBuild == InitBuild /\ [][NextBuild]_vars

\* a script with with_comments set has a CommentFilter among its filters
CommentsHaveFilter ==
    script.with_comments.v => HasCommentFilter(script.filters)

\* with_comments_enabled keeps the filters in order and appends a
\* CommentFilter only when none is present
EnableKeepsFilters ==
    arg.op = "with_comments_enabled" =>
        /\ script.with_comments = PyBool(TRUE)
        /\ script.comments_at_top = PyBool(arg.args)
        /\ script.filters.v =
               IF HasCommentFilter(arg.self.filters) THEN arg.self.filters.v
               ELSE arg.self.filters.v \o <<CommentFilter>>

\* C14: every Script with with_comments set that any sequence of
\* with_actions, with_filters and with_comments_enabled produces from
\* Script.default has a CommentFilter in its filter list, and
\* with_comments_enabled keeps the existing filters in order and appends a
\* CommentFilter only when none is present.
C14_CommentsAlwaysFiltered ==
    CommentsHaveFilter /\ EnableKeepsFilters

====
